---- MODULE Spec2Model ----
(***************************************************************************)
(* react-i18n-ai: the useTranslation hook's t(text), the localStorage      *)
(* translation cache and the AI provider slot.                             *)
(*                                                                         *)
(* Strings are sequences of UTF-16 code units, as charCodeAt sees them.    *)
(* JavaScript values are records [t, s, f]: t is the type tag, s the       *)
(* string content (strings only), f the own properties (objects only).     *)
(***************************************************************************)
EXTENDS Integers, Sequences, FiniteSets, TLC

VARIABLES
    storage,    \* what localStorage holds under CACHE_KEY (the raw item)
    provider,   \* aiProviderTranslate: "null", or the registered function
    language,   \* the hook's useState language
    calls,      \* the t(text) calls: position, captured values, history
    started,    \* number of t calls made so far
    lastSet,    \* history: the last function given to setAITranslateProvider
    hashing     \* a hashText run on its own: the text, the index, the hash

vars == <<storage, provider, language, calls, started, lastSet, hashing>>

(* ------------------------------ bounds -------------------------------- *)

\* t calls in a behaviour
MaxCalls == 2

\* length of the texts of the hashText runs
MaxTextLen == 7

CallIds == 1..MaxCalls

(* ------------------------------ strings ------------------------------- *)

en == <<101, 110>>
es == <<101, 115>>

Languages == {en, es}

\* a second target language: "fr"
fr == <<102, 114>>
MoreLanguages == {en, es, fr}

\* "" and "A"
Texts == {<<>>, <<65>>}

\* the texts of the hashText runs: "a" and U+FFFF, up to MaxTextLen code units
HashChars == {97, 65535}
HashTexts == UNION {[1..n -> HashChars] : n \in 0..MaxTextLen}

Providers == {"f", "g"}

\* what a provider function may resolve to: f -> "X" or "", g -> "Y"
ProviderOutputs(p) ==
    IF p = "f" THEN {<<88>>, <<>>} ELSE {<<89>>}

startsWith(str, prefix) ==
    /\ Len(str) >= Len(prefix)
    /\ SubSeq(str, 1, Len(prefix)) = prefix

RECURSIVE Digits(_)
Digits(n) ==
    IF n < 10 THEN <<48 + n>> ELSE Digits(n \div 10) \o <<48 + (n % 10)>>

\* Number.prototype.toString of a 32-bit integer
toString(n) ==
    IF n = (0 - 2147483647) - 1 THEN <<45, 50, 49, 52, 55, 52, 56, 51, 54, 52, 56>>
    ELSE IF n < 0 THEN <<45>> \o Digits(0 - n)
    ELSE Digits(n)

\* ToInt32 of hi * 65536 + lo, the two halves kept apart so that no
\* intermediate value leaves the 32-bit range
ToInt32(hi, lo) ==
    LET low  == lo % 65536
        high == (hi + (lo \div 65536)) % 65536
    IN  (IF high >= 32768 THEN high - 65536 ELSE high) * 65536 + low

\* hash << 5
shiftLeft5(hash) == ToInt32(32 * (hash \div 65536), 32 * (hash % 65536))

\* a step that does not subtract: (hash << 5) + chr; hash |= 0
hashStepNoSubtract(hash, chr) ==
    LET shifted == shiftLeft5(hash)
    IN  ToInt32(shifted \div 65536, (shifted % 65536) + chr)

\* hash = ((hash << 5) - hash) + chr; hash |= 0
hashStep(hash, chr) ==
    LET shifted == shiftLeft5(hash)
    IN  ToInt32((shifted \div 65536) - (hash \div 65536),
                ((shifted % 65536) - (hash % 65536)) + chr)

RECURSIVE hashFrom(_, _, _)
hashFrom(text, i, hash) ==
    IF i > Len(text) THEN hash
    ELSE hashFrom(text, i + 1, hashStep(hash, text[i]))

hashText(text) == toString(hashFrom(text, 1, 0))

\* a mock without the space after the bracket
mockTranslationNoSpace(targetLanguage, text) ==
    <<91>> \o targetLanguage \o <<93>> \o text

\* `[${req.targetLanguage}] ${req.text}`
mockTranslation(targetLanguage, text) ==
    <<91>> \o targetLanguage \o <<93, 32>> \o text

\* `[${language}] `
fallbackPrefix(lang) == <<91>> \o lang \o <<93, 32>>

(* --------------------------- JavaScript values ------------------------- *)

NoProps == <<>>

JUndefined == [t |-> "undefined", s |-> <<>>, f |-> NoProps]
JNull      == [t |-> "null", s |-> <<>>, f |-> NoProps]
JNumber    == [t |-> "number", s |-> <<>>, f |-> NoProps]   \* a non-zero number
JString(str)   == [t |-> "string", s |-> str, f |-> NoProps]
JObject(props) == [t |-> "object", s |-> <<>>, f |-> props]

Truthy(v) ==
    \/ v.t \in {"number", "object"}
    \/ v.t = "string" /\ v.s # <<>>

\* v[k] for a value v that is neither null nor undefined
GetProp(v, k) ==
    IF v.t = "object"
    THEN IF k \in DOMAIN v.f THEN v.f[k] ELSE JUndefined
    ELSE IF v.t = "string" /\ \E i \in 1..Len(v.s) : toString(i - 1) = k
    THEN JString(<<v.s[CHOOSE i \in 1..Len(v.s) : toString(i - 1) = k]>>)
    ELSE JUndefined

\* props with props[k] = v
WithProp(props, k, v) ==
    [x \in (DOMAIN props) \cup {k} |-> IF x = k THEN v ELSE props[x]]

(* ------------------------------ storage -------------------------------- *)

\* the raw item: absent (getItem gives null), the empty string, text that is
\* not JSON, or the JSON text of a value
RawAbsent   == [kind |-> "absent", val |-> JUndefined]
RawEmpty    == [kind |-> "empty", val |-> JUndefined]
RawGarbage  == [kind |-> "garbage", val |-> JUndefined]

JSONstringify(v) == [kind |-> "json", val |-> v]

EmptyCache == JObject(NoProps)

\* a loadCache that forgets what is persisted
loadCacheEmpty(raw, readFails) == EmptyCache

loadCache(raw, readFails) ==
    IF readFails THEN EmptyCache                  \* getItem throws: catch
    ELSE IF raw.kind \in {"absent", "empty"} THEN EmptyCache   \* raw is falsy
    ELSE IF raw.kind = "garbage" THEN EmptyCache  \* JSON.parse throws: catch
    ELSE raw.val                                  \* JSON.parse(raw)

\* a saveCache whose failed setItem leaves an empty item behind
saveCacheTruncated(raw, cache, writeFails) ==
    IF writeFails THEN RawEmpty ELSE JSONstringify(cache)

\* a saveCache that never reaches setItem
saveCacheDropped(raw, cache, writeFails) == raw

saveCache(raw, cache, writeFails) ==
    IF writeFails THEN raw ELSE JSONstringify(cache)

\* [threw, val]: cache[language]?.[hash]
getCachedTranslation(raw, readFails, lang, hash) ==
    LET cache == loadCache(raw, readFails)
    IN  IF cache.t = "null"
        THEN [threw |-> TRUE, val |-> JUndefined]
        ELSE LET byLang == GetProp(cache, lang)
             IN  IF byLang.t \in {"undefined", "null"}
                 THEN [threw |-> FALSE, val |-> JUndefined]
                 ELSE [threw |-> FALSE, val |-> GetProp(byLang, hash)]

\* a set that starts the language's map afresh
setCachedTranslationFresh(raw, readFails, writeFails, lang, hash, value) ==
    LET cache == loadCache(raw, readFails)
    IN  [threw |-> FALSE,
         raw |-> saveCache(raw,
             JObject(WithProp(cache.f, lang,
                 JObject(WithProp(NoProps, hash, JString(value))))),
             writeFails)]

\* a set that keeps an entry that is already there
setCachedTranslationKeepFirst(raw, readFails, writeFails, lang, hash, value) ==
    LET cache == loadCache(raw, readFails)
        byLang == GetProp(cache, lang)
    IN  IF byLang.t = "object" /\ hash \in DOMAIN byLang.f
        THEN [threw |-> FALSE, raw |-> raw]
        ELSE [threw |-> FALSE,
              raw |-> saveCache(raw,
                  JObject(WithProp(cache.f, lang,
                      JObject(WithProp(byLang.f, hash, JString(value))))),
                  writeFails)]

\* [threw, raw]: the raw item after the call
setCachedTranslation(raw, readFails, writeFails, lang, hash, value) ==
    LET cache  == loadCache(raw, readFails)
        failed == [threw |-> TRUE, raw |-> raw]
    IN  IF cache.t = "null" THEN failed
        ELSE LET byLang == GetProp(cache, lang)
             IN  IF ~Truthy(byLang)
                 THEN IF cache.t # "object" THEN failed
                      ELSE [threw |-> FALSE,
                            raw |-> saveCache(raw,
                                JObject(WithProp(cache.f, lang,
                                    JObject(WithProp(NoProps, hash, JString(value))))),
                                writeFails)]
                 ELSE IF byLang.t # "object" THEN failed
                      ELSE [threw |-> FALSE,
                            raw |-> saveCache(raw,
                                JObject(WithProp(cache.f, lang,
                                    JObject(WithProp(byLang.f, hash, JString(value))))),
                                writeFails)]

(* ------------------------------- the hook ------------------------------ *)

\* useState<string>('en')
DefaultLanguage == en

\* a short-circuit on the wrong language
SourceLanguageWrong == es

\* if (language === 'en') return text
SourceLanguage == en

\* a check that never sees a fallback
isFallbackNever(cached, lang) == FALSE

\* a check that takes every cached value for a fallback
isFallbackAlways(cached, lang) == Truthy(cached)

\* cached && cached.startsWith(`[${language}] `), for a string cached
isFallback(cached, lang) ==
    Truthy(cached) /\ startsWith(cached.s, fallbackPrefix(lang))

\* history helper: the string persisted under (lang, hash), JUndefined if none
Entry(raw, lang, hash) ==
    IF /\ raw.kind = "json"
       /\ raw.val.t = "object"
       /\ lang \in DOMAIN raw.val.f
       /\ raw.val.f[lang].t = "object"
       /\ hash \in DOMAIN raw.val.f[lang].f
    THEN raw.val.f[lang].f[hash]
    ELSE JUndefined

IdleCall ==
    [pc |-> "idle",         \* idle, pending (at the await), resolved, rejected
     text |-> <<>>,         \* the argument
     lang |-> en,           \* the language the closure captured
     hash |-> <<>>,         \* const hash
     awaiting |-> FALSE,    \* pending on the provider's promise
     prov |-> "null",       \* the provider function this call invoked
     res |-> <<>>,          \* res.translatedText
     detected |-> <<>>,     \* res.detectedSourceLanguage
     result |-> <<>>,       \* what the call resolved to
     \* history of the call
     slot |-> "null",       \* aiProviderTranslate when the call started
     doneAt |-> 0,          \* 1 for the first call to complete, 2 for the next
     stored |-> JUndefined, \* the persisted entry when the call started
     getArgs |-> <<>>,      \* the arguments of getCachedTranslation
     cached |-> JUndefined, \* what getCachedTranslation returned
     translates |-> 0,      \* aiTranslate calls
     args |-> <<>>,         \* the arguments the provider was invoked with
     outcome |-> "none",    \* of the provider: none, resolve, fail
     settled |-> JUndefined, \* the string the provider's promise resolved to
     setArgs |-> <<>>,      \* the arguments of setCachedTranslation
     wrote |-> "none",      \* setCachedTranslation: none, ok, failed, threw
     after |-> JUndefined,  \* the persisted entry when the call completed
     reads |-> 0,           \* loadCache calls
     writes |-> 0,          \* saveCache calls
     overlap |-> {}]        \* the calls pending when this one started

\* history helper: the position of the next call to complete
NextDone ==
    1 + Cardinality({d \in CallIds : calls[d].pc \in {"resolved", "rejected"}})

\* a response without the source language
aiTranslateResponseNoSource(translatedText) ==
    [translatedText |-> translatedText, detectedSourceLanguage |-> <<>>]

\* { translatedText, detectedSourceLanguage: 'en' }
aiTranslateResponse(translatedText) ==
    [translatedText |-> translatedText, detectedSourceLanguage |-> en]

\* aiTranslate up to the point where t is suspended: with a provider, the
\* provider is invoked and its outcome (it resolves; or it fails, by rejecting
\* or by throwing, both caught by the one catch) is known when t resumes
aiTranslateBegin(k) ==
    LET req == [text |-> k.text, targetLanguage |-> k.lang]
    IN  IF provider = "null"
        THEN LET r == aiTranslateResponse(mockTranslation(req.targetLanguage, req.text))
             IN  [k EXCEPT !.pc = "pending",
                           !.translates = k.translates + 1,
                           !.res = r.translatedText,
                           !.detected = r.detectedSourceLanguage]
        ELSE [k EXCEPT !.pc = "pending", !.prov = provider, !.awaiting = TRUE,
                       !.translates = k.translates + 1,
                       !.args = <<req.text, req.targetLanguage>>]

\* a t that translates whatever the cache holds
tBeginAlwaysTranslates(k, text, readFails) ==
    IF language = SourceLanguage
    THEN [k EXCEPT !.pc = "resolved", !.result = text, !.doneAt = NextDone]
    ELSE LET hash == hashText(text)
             got  == getCachedTranslation(storage, readFails, language, hash)
             k2   == [k EXCEPT !.hash = hash, !.cached = got.val, !.reads = 1,
                               !.getArgs = <<language, hash>>,
                               !.stored = Entry(storage, language, hash)]
         IN  IF got.threw THEN [k2 EXCEPT !.pc = "rejected", !.doneAt = NextDone]
             ELSE aiTranslateBegin(k2)

\* t(text), up to its first await or its return
tBegin(k, text, readFails) ==
    IF language = SourceLanguage
    THEN [k EXCEPT !.pc = "resolved", !.result = text, !.doneAt = NextDone]
    ELSE LET hash == hashText(text)
             got  == getCachedTranslation(storage, readFails, language, hash)
             k2   == [k EXCEPT !.hash = hash, !.cached = got.val, !.reads = 1,
                               !.getArgs = <<language, hash>>,
                               !.stored = Entry(storage, language, hash)]
         IN  IF got.threw THEN [k2 EXCEPT !.pc = "rejected", !.doneAt = NextDone]
             ELSE IF Truthy(got.val) /\ got.val.t # "string"
             THEN \* cached.startsWith is not a function
                  [k2 EXCEPT !.pc = "rejected", !.doneAt = NextDone]
             ELSE IF Truthy(got.val) /\ ~isFallback(got.val, language)
             THEN [k2 EXCEPT !.pc = "resolved", !.result = got.val.s,
                             !.doneAt = NextDone]
             ELSE aiTranslateBegin(k2)

tCall(text, readFails) ==
    /\ started < MaxCalls
    /\ started' = started + 1
    /\ calls' = [calls EXCEPT ![started + 1] =
            tBegin([IdleCall EXCEPT
                        !.text = text, !.lang = language, !.slot = provider,
                        !.overlap = {d \in CallIds : calls[d].pc = "pending"}],
                   text, readFails)]
    /\ UNCHANGED <<storage, provider, language, lastSet, hashing>>

\* a continuation that returns without caching
tResumeNoWrite(c, r, outcome, settled, readFails, writeFails) ==
    LET k == calls[c]
        res == r.translatedText
    IN  /\ calls' = [calls EXCEPT ![c] =
                [k EXCEPT !.awaiting = FALSE,
                          !.doneAt = NextDone,
                          !.outcome = outcome,
                          !.settled = settled,
                          !.res = res,
                          !.detected = r.detectedSourceLanguage,
                          !.pc = "resolved",
                          !.result = res]]
        /\ UNCHANGED <<storage, provider, language, started, lastSet, hashing>>

\* a continuation that reads the language anew
tResumeCurrentLanguage(c, r, outcome, settled, readFails, writeFails) ==
    LET k == calls[c]
        res == r.translatedText
        w == setCachedTranslation(storage, readFails, writeFails, language, k.hash, res)
    IN  /\ storage' = w.raw
        /\ calls' = [calls EXCEPT ![c] =
                [k EXCEPT !.awaiting = FALSE,
                          !.doneAt = NextDone,
                          !.outcome = outcome,
                          !.settled = settled,
                          !.res = res,
                          !.detected = r.detectedSourceLanguage,
                          !.reads = 2,
                          !.setArgs = <<language, k.hash, res>>,
                          !.writes = IF w.threw THEN 0 ELSE 1,
                          !.wrote = IF w.threw THEN "threw"
                                    ELSE IF writeFails THEN "failed" ELSE "ok",
                          !.after = Entry(w.raw, language, k.hash),
                          !.pc = IF w.threw THEN "rejected" ELSE "resolved",
                          !.result = IF w.threw THEN <<>> ELSE res]]
        /\ UNCHANGED <<provider, language, started, lastSet, hashing>>

\* t after the await: setCachedTranslation(language, hash, res.translatedText)
tResume(c, r, outcome, settled, readFails, writeFails) ==
    LET k == calls[c]
        res == r.translatedText
        w == setCachedTranslation(storage, readFails, writeFails, k.lang, k.hash, res)
    IN  /\ storage' = w.raw
        /\ calls' = [calls EXCEPT ![c] =
                [k EXCEPT !.awaiting = FALSE,
                          !.doneAt = NextDone,
                          !.outcome = outcome,
                          !.settled = settled,
                          !.res = res,
                          !.detected = r.detectedSourceLanguage,
                          !.reads = 2,
                          !.setArgs = <<k.lang, k.hash, res>>,
                          !.writes = IF w.threw THEN 0 ELSE 1,
                          !.wrote = IF w.threw THEN "threw"
                                    ELSE IF writeFails THEN "failed" ELSE "ok",
                          !.after = Entry(w.raw, k.lang, k.hash),
                          !.pc = IF w.threw THEN "rejected" ELSE "resolved",
                          !.result = IF w.threw THEN <<>> ELSE res]]
        /\ UNCHANGED <<provider, language, started, lastSet, hashing>>

\* the provider invocation settles; aiTranslate returns and t resumes
providerSettles(c, resolves, readFails, writeFails) ==
    /\ calls[c].pc = "pending"
    /\ calls[c].awaiting
    /\ IF resolves
       THEN \E translated \in ProviderOutputs(calls[c].prov) :
                tResume(c, aiTranslateResponse(translated), "resolve",
                        JString(translated), readFails, writeFails)
       ELSE tResume(c, aiTranslateResponse(
                           mockTranslation(calls[c].args[2], calls[c].args[1])),
                    "fail", JUndefined, readFails, writeFails)

\* aiTranslate returned the mock without awaiting a provider; t resumes
aiTranslateReturns(c, readFails, writeFails) ==
    /\ calls[c].pc = "pending"
    /\ ~calls[c].awaiting
    /\ tResume(c, [translatedText |-> calls[c].res,
                    detectedSourceLanguage |-> calls[c].detected],
               calls[c].outcome, JUndefined, readFails, writeFails)

\* a registration that keeps the first provider
setAITranslateProviderOnce(fn) ==
    /\ provider' = IF provider = "null" THEN fn ELSE provider
    /\ lastSet' = fn
    /\ UNCHANGED <<storage, language, calls, started, hashing>>

setAITranslateProvider(fn) ==
    /\ provider' = fn
    /\ lastSet' = fn
    /\ UNCHANGED <<storage, language, calls, started, hashing>>

\* a setLanguage that abandons the calls in flight
setLanguageCancelling(lang) ==
    /\ language' = lang
    /\ calls' = [c \in CallIds |->
            IF calls[c].pc = "pending"
            THEN [calls[c] EXCEPT !.pc = "cancelled"] ELSE calls[c]]
    /\ UNCHANGED <<storage, provider, started, lastSet, hashing>>

setLanguage(lang) ==
    /\ language' = lang
    /\ UNCHANGED <<storage, provider, calls, started, lastSet, hashing>>

(* ------------------------- hashText on its own ------------------------- *)

IdleHashing ==
    [pc |-> "idle", text |-> <<>>, i |-> 0, hash |-> 0, result |-> <<>>]

\* let hash = 0, i (the index counts from 1 here)
hashTextBegin(text) ==
    [pc |-> "loop", text |-> text, i |-> 1, hash |-> 0, result |-> <<>>]

\* one iteration of the for loop
hashTextLoop ==
    /\ hashing.pc = "loop"
    /\ hashing.i <= Len(hashing.text)
    /\ hashing' = [hashing EXCEPT
            !.hash = hashStep(hashing.hash, hashing.text[hashing.i]),
            !.i = hashing.i + 1]
    /\ UNCHANGED <<storage, provider, language, calls, started, lastSet>>

\* return hash.toString()
hashTextReturn ==
    /\ hashing.pc = "loop"
    /\ hashing.i > Len(hashing.text)
    /\ hashing' = [hashing EXCEPT !.pc = "done", !.result = toString(hashing.hash)]
    /\ UNCHANGED <<storage, provider, language, calls, started, lastSet>>

(* ---------------------------- specifications --------------------------- *)

InitRest ==
    /\ provider = "null"
    /\ language = DefaultLanguage
    /\ calls = [c \in CallIds |-> IdleCall]
    /\ started = 0
    /\ lastSet = "null"

Init ==
    /\ storage = RawAbsent
    /\ InitRest
    /\ hashing = IdleHashing

\* what another script, an older version or a truncated write may have left
\* under CACHE_KEY: "", not JSON, null, 5, "Hi", {"es":null}, {"es":5},
\* {"es":"Hi"}, {"es":{"0":5}}
CorruptBlobs ==
    {RawEmpty, RawGarbage,
     JSONstringify(JNull), JSONstringify(JNumber), JSONstringify(JString(<<72, 105>>)),
     JSONstringify(JObject(WithProp(NoProps, es, JNull))),
     JSONstringify(JObject(WithProp(NoProps, es, JNumber))),
     JSONstringify(JObject(WithProp(NoProps, es, JString(<<72, 105>>)))),
     JSONstringify(JObject(WithProp(NoProps, es,
        JObject(WithProp(NoProps, <<48>>, JNumber)))))}

InitCorrupt ==
    /\ storage \in CorruptBlobs \cup {RawAbsent}
    /\ InitRest
    /\ hashing = IdleHashing

\* hashText(text) is called, for any text
InitHash ==
    /\ storage = RawAbsent
    /\ InitRest
    /\ hashing \in {hashTextBegin(text) : text \in HashTexts}

Next ==
    \/ \E text \in Texts, readFails \in BOOLEAN :
            tCall(text, readFails)
    \/ \E c \in CallIds, resolves \in BOOLEAN, readFails \in BOOLEAN,
          writeFails \in BOOLEAN :
            providerSettles(c, resolves, readFails, writeFails)
    \/ \E c \in CallIds, readFails \in BOOLEAN, writeFails \in BOOLEAN :
            aiTranslateReturns(c, readFails, writeFails)
    \/ \E fn \in Providers : setAITranslateProvider(fn)
    \/ \E lang \in Languages : setLanguage(lang)

Spec == Init /\ [][Next]_vars

SpecCorrupt == InitCorrupt /\ [][Next]_vars

\* every provider invocation settles, and a suspended t is resumed once the
\* promise it awaits has settled
Fairness ==
    \A c \in CallIds :
        /\ WF_vars(\E resolves \in BOOLEAN, readFails \in BOOLEAN,
                      writeFails \in BOOLEAN :
                    providerSettles(c, resolves, readFails, writeFails))
        /\ WF_vars(\E readFails \in BOOLEAN, writeFails \in BOOLEAN :
                    aiTranslateReturns(c, readFails, writeFails))

\* every getItem and setItem succeeds
NextReliable ==
    \/ \E text \in Texts : tCall(text, FALSE)
    \/ \E c \in CallIds, resolves \in BOOLEAN :
            providerSettles(c, resolves, FALSE, FALSE)
    \/ \E c \in CallIds : aiTranslateReturns(c, FALSE, FALSE)
    \/ \E fn \in Providers : setAITranslateProvider(fn)
    \/ \E lang \in Languages : setLanguage(lang)

SpecReliable == Init /\ [][NextReliable]_vars

\* the caller switches between the source language and two target languages,
\* with one text, "A", and one provider
NextLanguages ==
    \/ \E text \in {<<65>>}, readFails \in BOOLEAN :
            tCall(text, readFails)
    \/ \E c \in CallIds, resolves \in BOOLEAN, readFails \in BOOLEAN,
          writeFails \in BOOLEAN :
            providerSettles(c, resolves, readFails, writeFails)
    \/ \E c \in CallIds, readFails \in BOOLEAN, writeFails \in BOOLEAN :
            aiTranslateReturns(c, readFails, writeFails)
    \/ \E fn \in {"g"} : setAITranslateProvider(fn)
    \/ \E lang \in MoreLanguages : setLanguage(lang)

SpecLanguages == Init /\ [][NextLanguages]_vars

SpecFair == Init /\ [][NextLanguages]_vars /\ Fairness

NextHash ==
    \/ hashTextLoop
    \/ hashTextReturn

SpecHash == InitHash /\ [][NextHash]_vars

(* -------------------------------- claims ------------------------------- *)

Started(c) == calls[c].pc # "idle"
Done(c) == calls[c].pc \in {"resolved", "rejected"}

\* "[L] "
MarkerFor(lang) == <<91>> \o lang \o <<93, 32>>

\* a persisted fallback marker of language lang
IsMarker(v, lang) == v.t = "string" /\ startsWith(v.s, MarkerFor(lang))

\* a persisted value that does not start with "[L] "
IsTrusted(v, lang) == v.t = "string" /\ ~startsWith(v.s, MarkerFor(lang))

\* C1: whatever the provider does and whatever localStorage holds or throws,
\* no t call ever rejects.
C1_NeverRejects == \A c \in CallIds : calls[c].pc # "rejected"

SelfHealing(k, anyWrite) ==
    (/\ k.pc # "idle"
     /\ k.lang # en
     /\ IsMarker(k.stored, k.lang)
     /\ k.slot # "null")
    => /\ k.prov = k.slot
       /\ k.pc \in {"pending", "resolved"}
       /\ k.pc = "resolved" => k.outcome # "none"
       /\ k.outcome = "resolve" =>
            /\ k.pc = "resolved"
            /\ k.res \in ProviderOutputs(k.slot)
            /\ k.result = k.res
            /\ (anyWrite \/ k.wrote = "ok") => k.after = JString(k.res)

\* C2 as stated: a call that finds a fallback marker persisted under its key
\* while a provider is registered invokes that provider, resolves to what the
\* provider resolved to, and leaves that value persisted under the key.
C2_SelfHealing_AsStated == \A c \in CallIds : SelfHealing(calls[c], TRUE)

\* C2 amended: the same, the value being persisted under the key provided the
\* call's storage write did not fail.
C2_SelfHealing == \A c \in CallIds : SelfHealing(calls[c], FALSE)

C2_Witness ==
    \E c \in CallIds :
        /\ IsMarker(calls[c].stored, calls[c].lang)
        /\ calls[c].slot = "f"
        /\ calls[c].outcome = "resolve"
        /\ calls[c].result = <<88>>
        /\ calls[c].after = JString(<<88>>)

ShortCircuited(k, value) ==
    /\ k.pc = "resolved"
    /\ k.result = value
    /\ k.prov = "null"
    /\ k.reads = 1
    /\ k.writes = 0
    /\ k.wrote = "none"

\* C3 as stated: a call under a language other than "en" whose key has a
\* persisted value that does not start with "[L] " resolves to that value
\* without invoking the provider or writing the cache.
C3_TrustedShortCircuit_AsStated ==
    \A c \in CallIds :
        (Started(c) /\ calls[c].lang # en /\ IsTrusted(calls[c].stored, calls[c].lang))
        => ShortCircuited(calls[c], calls[c].stored.s)

\* C3 amended: a call under a language other than "en" to which the cache
\* read returned a non-empty value that does not start with "[L] " resolves
\* to that value without invoking the provider or writing the cache.
C3_TrustedShortCircuit ==
    \A c \in CallIds :
        (/\ Started(c)
         /\ calls[c].lang # en
         /\ IsTrusted(calls[c].cached, calls[c].lang)
         /\ calls[c].cached.s # <<>>)
        => ShortCircuited(calls[c], calls[c].cached.s)

C3_Witness ==
    \E c \in CallIds :
        /\ calls[c].lang = es
        /\ calls[c].cached = JString(<<88>>)
        /\ calls[c].slot = "f"
        /\ calls[c].pc = "resolved"
        /\ calls[c].result = <<88>>

\* c2 is the call made right after c1, for the same text under the same
\* language, each started with no other call in flight, both completed
InSequence(c1, c2) ==
    /\ c2 = c1 + 1
    /\ Done(c1) /\ Done(c2)
    /\ calls[c1].text = calls[c2].text
    /\ calls[c1].lang = calls[c2].lang
    /\ calls[c1].overlap = {} /\ calls[c2].overlap = {}

Invocations(c) == IF calls[c].prov = "null" THEN 0 ELSE 1

SameResultOneInvocation(c1, c2) ==
    /\ calls[c1].pc = "resolved" /\ calls[c2].pc = "resolved"
    /\ calls[c1].result = calls[c2].result
    /\ Invocations(c1) + Invocations(c2) <= 1

\* the call's cache read returned what is persisted, and its write did not fail
StorageWorked(c) ==
    /\ calls[c].cached = calls[c].stored
    /\ calls[c].wrote # "failed"

\* C4 as stated: two calls in sequence for the same text and language resolve
\* to the same string, the provider being invoked at most once over the two.
C4_Idempotence_AsStated ==
    \A c1 \in CallIds, c2 \in CallIds :
        InSequence(c1, c2) => SameResultOneInvocation(c1, c2)

\* C4 amended: the same, provided the language is "en", or the storage
\* accesses of both calls succeeded and either no provider was registered at
\* either call or the first call resolved to a non-empty string that does not
\* start with "[L] ".
C4_Idempotence ==
    \A c1 \in CallIds, c2 \in CallIds :
        (/\ InSequence(c1, c2)
         /\ \/ calls[c1].lang = en
            \/ /\ StorageWorked(c1) /\ StorageWorked(c2)
               /\ \/ calls[c1].slot = "null" /\ calls[c2].slot = "null"
                  \/ /\ calls[c1].result # <<>>
                     /\ ~startsWith(calls[c1].result, MarkerFor(calls[c1].lang)))
        => SameResultOneInvocation(c1, c2)

C4_Witness ==
    \E c1 \in CallIds, c2 \in CallIds :
        /\ InSequence(c1, c2)
        /\ calls[c1].lang = es
        /\ calls[c1].prov = "f"
        /\ calls[c1].result = <<88>>
        /\ calls[c2].slot = "f"
        /\ calls[c2].prov = "null"
        /\ calls[c2].result = <<88>>

FallbackOutcome(k, anyWrite) ==
    (/\ k.pc \in {"resolved", "rejected"}
     /\ k.lang # en
     /\ ~IsTrusted(k.stored, k.lang)
     /\ k.slot = "null" \/ k.outcome = "fail")
    => /\ k.pc = "resolved"
       /\ k.result = <<91>> \o k.lang \o <<93, 32>> \o k.text
       /\ k.wrote \in {"ok", "failed"}
       /\ (anyWrite \/ k.wrote = "ok") =>
            k.after = JString(<<91>> \o k.lang \o <<93, 32>> \o k.text)

\* C5 as stated: with no trusted entry persisted, a call made with no provider
\* registered, or whose provider fails, resolves to "[L] " followed by the
\* text, and that string is then persisted under the call's key.
C5_FallbackOutcome_AsStated == \A c \in CallIds : FallbackOutcome(calls[c], TRUE)

\* C5 amended: the same, the string being persisted under the call's key
\* provided the call's storage write did not fail.
C5_FallbackOutcome == \A c \in CallIds : FallbackOutcome(calls[c], FALSE)

C5_Witness ==
    /\ \E c \in CallIds :
        /\ calls[c].slot = "null"
        /\ calls[c].result = <<91, 101, 115, 93, 32, 65>>
        /\ calls[c].after = JString(<<91, 101, 115, 93, 32, 65>>)
    /\ \E c \in CallIds :
        /\ calls[c].outcome = "fail"
        /\ calls[c].result = <<91, 101, 115, 93, 32, 65>>
        /\ calls[c].after = JString(<<91, 101, 115, 93, 32, 65>>)

\* C6: a call made while the language is "en" resolves at once to its text,
\* reads and writes no cache, invokes no provider, and leaves the persisted
\* cache and the provider slot as they were.
C6_SourceLanguageShortCircuit ==
    [][\A c \in CallIds :
        (calls[c].pc = "idle" /\ calls'[c].pc # "idle" /\ language = en)
        => /\ calls'[c].pc = "resolved"
           /\ calls'[c].result = calls'[c].text
           /\ calls'[c].reads = 0
           /\ calls'[c].writes = 0
           /\ calls'[c].prov = "null"
           /\ storage' = storage
           /\ provider' = provider]_vars

C6_Witness ==
    \E c \in CallIds :
        /\ calls[c].lang = en
        /\ calls[c].slot = "f"
        /\ calls[c].pc = "resolved"
        /\ calls[c].text = <<65>>
        /\ calls[c].result = <<65>>
        /\ calls[c].reads = 0
        /\ Entry(storage, es, hashText(<<65>>)) = JString(<<88>>)

\* the raw item is the JSON text of a language -> (hash -> string) object
IsCacheBlob(raw) ==
    /\ raw.kind = "json"
    /\ raw.val.t = "object"
    /\ \A l \in DOMAIN raw.val.f :
        /\ raw.val.f[l].t = "object"
        /\ \A h \in DOMAIN raw.val.f[l].f : raw.val.f[l].f[h].t = "string"

\* C7: whatever the raw item is and whether or not getItem throws,
\* getCachedTranslation does not raise, and it returns undefined when the
\* read fails or the raw item is not a cache.
C7_GetAbsorbsFaults ==
    \A l \in Languages, x \in Texts, readFails \in BOOLEAN :
        LET got == getCachedTranslation(storage, readFails, l, hashText(x))
        IN  /\ ~got.threw
            /\ (readFails \/ ~IsCacheBlob(storage)) => got.val = JUndefined

\* C8: an entry persisted in one state is persisted (with any value) in the
\* next, whatever the calls, the provider and the storage do.
C8_MonotoneCache ==
    [][\A l \in Languages, x \in Texts :
        Entry(storage, l, hashText(x)) # JUndefined
        => Entry(storage', l, hashText(x)) # JUndefined]_vars

\* c2 started while c1 was pending, for the same text and language, a provider
\* being registered at both starts and no trusted entry persisted
Overlapping(c1, c2) ==
    /\ c1 # c2
    /\ c1 \in calls[c2].overlap
    /\ calls[c1].text = calls[c2].text
    /\ calls[c1].lang = calls[c2].lang
    /\ calls[c1].lang # en
    /\ calls[c1].slot # "null" /\ calls[c2].slot # "null"
    /\ ~IsTrusted(calls[c2].stored, calls[c2].lang)

LastOf(c1, c2) == IF calls[c1].doneAt > calls[c2].doneAt THEN c1 ELSE c2

LastWriteWins(c1, c2, anyWrite) ==
    Overlapping(c1, c2)
    => /\ calls[c1].prov = calls[c1].slot
       /\ calls[c2].prov = calls[c2].slot
       /\ (Done(c1) /\ Done(c2)) =>
            LET k == calls[LastOf(c1, c2)]
            IN  (anyWrite \/ k.wrote = "ok") => k.after = JString(k.res)

\* C9 as stated: two overlapping calls for the same text and language each
\* invoke the provider, and when both have completed the persisted value is
\* the translatedText of the one that completed last.
C9_LastWriteWins_AsStated ==
    \A c1 \in CallIds, c2 \in CallIds : LastWriteWins(c1, c2, TRUE)

\* C9 amended: the same, the persisted value being the last call's
\* translatedText provided that call's storage write did not fail.
C9_LastWriteWins ==
    \A c1 \in CallIds, c2 \in CallIds : LastWriteWins(c1, c2, FALSE)

C9_Witness ==
    \E c1 \in CallIds, c2 \in CallIds :
        /\ Overlapping(c1, c2)
        /\ calls[c1].prov # "null" /\ calls[c2].prov # "null"
        /\ calls[c1].outcome = "resolve" /\ calls[c2].outcome = "resolve"
        /\ calls[c1].res = <<89>> /\ calls[c2].res = <<88>>
        /\ calls[c2].doneAt < calls[c1].doneAt
        /\ calls[c2].after = JString(<<88>>)
        /\ calls[c1].after = JString(<<89>>)
        /\ Entry(storage, calls[c1].lang, calls[c1].hash) = JString(<<89>>)

\* C10: the slot holds the function last registered and nothing of an earlier
\* one; a call invokes the function in the slot when it starts, and completes
\* with what that function produced even if the slot is replaced meanwhile.
C10_ProviderReplacement ==
    /\ lastSet # "null" => provider = lastSet
    /\ \A c \in CallIds :
        calls[c].prov # "null" =>
            /\ calls[c].prov = calls[c].slot
            /\ calls[c].outcome = "resolve" =>
                /\ calls[c].res \in ProviderOutputs(calls[c].prov)
                /\ calls[c].result = calls[c].res

C10_Witness ==
    \E c1 \in CallIds, c2 \in CallIds :
        /\ c1 \in calls[c2].overlap
        /\ calls[c1].prov = "f" /\ calls[c2].prov = "g"
        /\ calls[c1].outcome = "resolve" /\ calls[c1].result = <<88>>
        /\ calls[c2].outcome = "resolve" /\ calls[c2].result = <<89>>
        /\ provider = "g"

(* -------------------------------- C11 ---------------------------------- *)

\* aiTranslate has produced its response for the call
AiTranslated(k) ==
    \/ k.pc = "pending" /\ ~k.awaiting
    \/ k.wrote # "none"

ProviderIndirection(k) ==
    /\ k.prov # "null" => k.prov = k.slot /\ k.args = <<k.text, k.lang>>
    /\ k.prov = "null" => k.args = <<>>
    /\ AiTranslated(k) =>
          /\ k.detected = <<101, 110>>
          /\ k.settled.t = "string" => k.res = k.settled.s
          /\ (k.outcome = "fail" \/ k.slot = "null") =>
                k.res = MarkerFor(k.lang) \o k.text
    /\ k.pc = "rejected" => k.wrote = "threw"

\* C11: aiTranslate invokes the registered provider with exactly (text,
\* targetLanguage); when the provider resolves to s the response is
\* {translatedText: s, detectedSourceLanguage: "en"}; when it fails or none
\* is registered the response is {translatedText: "[" + targetLanguage + "] "
\* + text, detectedSourceLanguage: "en"}; aiTranslate never rejects, so a t
\* call that reached it is rejected only by the cache write that follows.
C11_ProviderIndirection == \A c \in CallIds : ProviderIndirection(calls[c])

\* a provider invoked with ("A", "es") resolved to "X", and another call's
\* provider failed
C11_Witness ==
    \E c, d \in CallIds :
        /\ calls[c].args = <<(<<65>>), es>>
        /\ calls[c].settled = JString(<<88>>)
        /\ calls[c].res = <<88>>
        /\ calls[c].detected = en
        /\ calls[d].outcome = "fail"
        /\ calls[d].res = <<91, 101, 115, 93, 32, 65>>
        /\ calls[d].detected = en

(* -------------------------------- C12 ---------------------------------- *)

\* C12: when setItem throws during setCachedTranslation, the set does not
\* raise, the persisted item is exactly what it was before the call, and the
\* enclosing t call resolves to the translated text.
C12_SwallowedWriteFailure ==
    [][\A c \in CallIds :
        (calls[c].pc = "pending" /\ calls'[c].wrote = "failed") =>
            /\ storage' = storage
            /\ calls'[c].pc = "resolved"
            /\ calls'[c].result = calls'[c].res
            /\ calls'[c].settled.t = "string" =>
                  calls'[c].result = calls'[c].settled.s]_vars

\* the provider resolved to "X", the write failed, the call resolved to "X"
\* and the entry is as absent as it was when the call started
C12_Witness ==
    \E c \in CallIds :
        /\ calls[c].wrote = "failed"
        /\ calls[c].pc = "resolved"
        /\ calls[c].settled = JString(<<88>>)
        /\ calls[c].result = <<88>>
        /\ calls[c].stored = JUndefined
        /\ calls[c].after = JUndefined

(* -------------------------------- C13 ---------------------------------- *)

\* the fingerprints and the values the calls of the model can set
Fingerprints == {hashText(x) : x \in Texts}
CacheValues ==
    UNION {ProviderOutputs(p) : p \in Providers}
        \cup {MarkerFor(l) \o x : l \in Languages, x \in Texts}

\* set(l, f, v) on the persisted item raw, reads and writes succeeding
IdempotentUpsert(raw, l, f, v) ==
    LET once  == setCachedTranslation(raw, FALSE, FALSE, l, f, v)
        twice == setCachedTranslation(once.raw, FALSE, FALSE, l, f, v)
        got   == getCachedTranslation(once.raw, FALSE, l, f)
    IN  /\ ~once.threw /\ ~twice.threw /\ ~got.threw
        /\ got.val = JString(v)
        /\ twice.raw = once.raw
        /\ \A l2 \in Languages, f2 \in Fingerprints :
              <<l2, f2>> # <<l, f>> =>
                  /\ Entry(once.raw, l2, f2) = Entry(raw, l2, f2)
                  /\ getCachedTranslation(once.raw, FALSE, l2, f2)
                        = getCachedTranslation(raw, FALSE, l2, f2)

\* C13: with storage reads and writes succeeding, after set(l, f, v) get(l, f)
\* returns v, a second set(l, f, v) leaves the persisted cache as the first
\* left it, and every other (language, fingerprint) entry keeps its value.
C13_IdempotentUpsert ==
    \A l \in Languages, f \in Fingerprints, v \in CacheValues :
        IdempotentUpsert(storage, l, f, v)

\* two calls have set different entries of the same language and both are
\* persisted, the second set having replaced nothing but an absent entry
C13_Witness ==
    \E c, d \in CallIds :
        /\ calls[c].wrote = "ok" /\ calls[d].wrote = "ok"
        /\ calls[c].lang = calls[d].lang
        /\ calls[c].hash # calls[d].hash
        /\ calls[c].doneAt < calls[d].doneAt
        /\ calls[d].stored = JUndefined
        /\ Entry(storage, calls[c].lang, calls[c].hash) = JString(calls[c].res)
        /\ Entry(storage, calls[d].lang, calls[d].hash) = JString(calls[d].res)

(* -------------------------------- C14 ---------------------------------- *)

MinInt32 == (0 - 2147483647) - 1
MaxInt32 == 2147483647

\* a + b wrapped into [-2^31, 2^31 - 1], for a and b in that range
AddWrapped(a, b) ==
    IF a >= 0 /\ b >= 0 /\ a > MaxInt32 - b
    THEN (a + MinInt32) + (b + MinInt32)
    ELSE IF a < 0 /\ b < 0 /\ a < MinInt32 - b
    THEN (a - MinInt32) + (b - MinInt32)
    ELSE a + b

\* -a wrapped
NegWrapped(a) == IF a = MinInt32 THEN MinInt32 ELSE 0 - a

DoubleWrapped(a) == AddWrapped(a, a)

\* (acc*32 - acc + c) wrapped: the sums are taken modulo 2^32 one at a time,
\* which gives the value of the whole expression modulo 2^32
ReferenceStep(acc, c) ==
    LET times32 == DoubleWrapped(DoubleWrapped(DoubleWrapped(
                       DoubleWrapped(DoubleWrapped(acc)))))
    IN  AddWrapped(AddWrapped(times32, NegWrapped(acc)), c)

RECURSIVE ReferenceAcc(_)
ReferenceAcc(text) ==
    IF text = <<>> THEN 0
    ELSE ReferenceStep(ReferenceAcc(SubSeq(text, 1, Len(text) - 1)),
                       text[Len(text)])

RECURSIVE DecimalDigits(_)
DecimalDigits(n) ==
    IF n = 0 THEN <<>> ELSE DecimalDigits(n \div 10) \o <<48 + (n % 10)>>

\* the decimal string of an integer of the signed 32-bit range
Decimal(n) ==
    IF n = 0 THEN <<48>>
    ELSE IF n > 0 THEN DecimalDigits(n)
    ELSE LET last == (10 - (n % 10)) % 10
         IN  <<45>> \o DecimalDigits(0 - ((n + last) \div 10)) \o <<48 + last>>

\* C14: hashText(text) is the decimal string of the accumulator that starts at
\* 0 and, for each character code c in order, becomes (acc*32 - acc + c)
\* wrapped into [-2^31, 2^31 - 1]; the loop's accumulator is that value after
\* every iteration, and the result is a function of the text alone.
C14_FingerprintReference ==
    /\ hashing.pc = "loop" =>
          hashing.hash = ReferenceAcc(SubSeq(hashing.text, 1, hashing.i - 1))
    /\ hashing.pc = "done" =>
          /\ hashing.result = Decimal(ReferenceAcc(hashing.text))
          /\ hashing.result = hashText(hashing.text)

\* a run on a text of six code units or more has returned a negative number:
\* the accumulator has wrapped
C14_Witness ==
    /\ hashing.pc = "done"
    /\ Len(hashing.text) >= 6
    /\ hashing.result[1] = 45
    /\ hashing.result = Decimal(ReferenceAcc(hashing.text))

(* -------------------------------- C15 ---------------------------------- *)

\* C15: every t call that is in flight eventually resolves, given that every
\* provider invocation settles and the storage calls return; no other call,
\* setAITranslateProvider or setLanguage cancels or blocks it.
C15_EventualCompletion ==
    \A c \in CallIds : (calls[c].pc = "pending") ~> (calls[c].pc = "resolved")

\* a call has resolved after its await, and while it was in flight the
\* language and the provider were changed and another call was started
C15_Witness ==
    \E c, d \in CallIds :
        /\ calls[c].pc = "resolved"
        /\ calls[c].wrote # "none"
        /\ c \in calls[d].overlap
        /\ calls[d].lang # calls[c].lang
        /\ calls[d].slot # calls[c].slot

(* -------------------------------- C16 ---------------------------------- *)

\* the cache lookup of the call gave nothing, or a fallback marker
MissPath(k) ==
    /\ k.reads >= 1
    /\ \/ ~Truthy(k.cached)
       \/ IsMarker(k.cached, k.lang)

MissPathOrdering(k) ==
    /\ k.pc \in {"pending", "resolved"}
    /\ k.translates = 1
    /\ k.pc = "pending" =>
          /\ k.writes = 0
          /\ k.setArgs = <<>>
          /\ k.wrote = "none"
          /\ k.settled = JUndefined
    /\ k.pc = "resolved" =>
          /\ k.writes = 1
          /\ k.setArgs = <<k.lang, hashText(k.text), k.result>>
          /\ k.prov # "null" => k.outcome \in {"resolve", "fail"}
          /\ k.wrote = "ok" => k.after = JString(k.result)

\* C16: a t call whose cache lookup gives nothing or a fallback marker calls
\* aiTranslate exactly once; while that is pending the call has written
\* nothing; once it has settled the call invokes setCachedTranslation exactly
\* once, with (language, hashText(text), translatedText), and resolves to that
\* translatedText.
C16_MissPathOrdering ==
    \A c \in CallIds : MissPath(calls[c]) => MissPathOrdering(calls[c])

\* a call found the marker "[es] A", its provider resolved to "X", and it
\* wrote "X" under (es, hashText("A")) and resolved to "X"
C16_Witness ==
    \E c \in CallIds :
        /\ calls[c].cached = JString(<<91, 101, 115, 93, 32, 65>>)
        /\ calls[c].pc = "resolved"
        /\ calls[c].outcome = "resolve"
        /\ calls[c].setArgs = <<es, <<54, 53>>, <<88>>>>
        /\ calls[c].result = <<88>>
        /\ calls[c].after = JString(<<88>>)

(* -------------------------------- C17 ---------------------------------- *)

\* both calls were suspended at the await at the same time
Concurrent(c1, c2) ==
    /\ c1 # c2
    /\ c1 \in calls[c2].overlap \/ c2 \in calls[c1].overlap
    /\ calls[c1].translates = 1 /\ calls[c2].translates = 1

\* the persisted cache holds what call c set, unless another call of the
\* same language and text set the entry after it
EntryOf(c) ==
    LET k == calls[c]
        e == Entry(storage, k.lang, k.hash)
    IN  /\ e.t = "string"
        /\ (\A d \in CallIds :
                (d # c /\ calls[d].setArgs # <<>>
                    /\ calls[d].lang = k.lang /\ calls[d].hash = k.hash)
                => calls[d].doneAt < k.doneAt)
           => e = JString(k.res)

\* C17: with every getItem and setItem succeeding, once all calls have
\* completed the persisted cache holds an entry for each of any two calls,
\* on different (language, text) pairs, that were suspended at the same time.
C17_NoLostUpdate ==
    \A c1, c2 \in CallIds :
        (/\ Concurrent(c1, c2)
         /\ <<calls[c1].lang, calls[c1].text>> # <<calls[c2].lang, calls[c2].text>>
         /\ \A d \in CallIds : calls[d].pc # "pending")
        => EntryOf(c1) /\ EntryOf(c2)

\* two calls on different texts were suspended together, completed in the
\* order opposite to their start, and both entries are persisted
C17_Witness ==
    \E c1, c2 \in CallIds :
        /\ c1 \in calls[c2].overlap
        /\ calls[c1].text # calls[c2].text
        /\ calls[c1].lang = calls[c2].lang
        /\ calls[c1].wrote = "ok" /\ calls[c2].wrote = "ok"
        /\ calls[c2].doneAt < calls[c1].doneAt
        /\ \A d \in CallIds : calls[d].pc # "pending"
        /\ Entry(storage, calls[c1].lang, calls[c1].hash) = JString(calls[c1].res)
        /\ Entry(storage, calls[c2].lang, calls[c2].hash) = JString(calls[c2].res)

(* -------------------------------- C18 ---------------------------------- *)

\* the step starts call c: it reads the cache and invokes the provider with
\* the language current at that moment
StartsUnderCurrent(c) ==
    (calls[c].pc = "idle" /\ calls'[c].pc # "idle") =>
        /\ calls'[c].lang = language
        /\ language # en =>
              calls'[c].getArgs = <<language, hashText(calls'[c].text)>>
        /\ calls'[c].prov # "null" =>
              calls'[c].args = <<calls'[c].text, language>>

\* the step resumes call c: it writes under the language the call started
\* with, and no entry of another language is created or changed in value
ResumesUnderCaptured(c) ==
    (calls[c].pc = "pending" /\ calls'[c].pc # "pending") =>
        /\ calls'[c].setArgs =
              <<calls[c].getArgs[1], calls[c].getArgs[2], calls'[c].res>>
        /\ calls'[c].settled.t # "string" =>
              calls'[c].res = MarkerFor(calls[c].getArgs[1]) \o calls[c].text
        /\ \A l \in MoreLanguages \ {calls[c].getArgs[1]}, h \in Fingerprints :
              Entry(storage', l, h) \in {Entry(storage, l, h), JUndefined}

\* C18: a t call started while the language is L reads the cache under L,
\* invokes the provider with target L and sets only (L, hashText(text)),
\* whatever setLanguage does while it is pending; its set creates and changes
\* no entry of another language.
C18_LanguageFixedPerCall ==
    [][\A c \in CallIds : StartsUnderCurrent(c) /\ ResumesUnderCaptured(c)]_vars

\* a call started under "es"; while it was pending the language became "fr"
\* and a call under "fr" was made and persisted its entry; the first call then
\* set (es, "65") and the entry of "fr" is still what the second call set
C18_Witness ==
    \E c, d \in CallIds :
        /\ calls[c].lang = es /\ calls[d].lang = fr
        /\ c \in calls[d].overlap
        /\ language = fr
        /\ calls[d].wrote = "ok" /\ calls[c].wrote = "ok"
        /\ calls[d].doneAt < calls[c].doneAt
        /\ calls[c].setArgs = <<es, <<54, 53>>, calls[c].res>>
        /\ Entry(storage, es, <<54, 53>>) = JString(calls[c].res)
        /\ Entry(storage, fr, <<54, 53>>) = JString(calls[d].res)

(* -------------------------------- C19 ---------------------------------- *)

\* the step replaces a trusted value under (l, hashText(x)) by "[l] x"
Regresses(l, x) ==
    /\ IsTrusted(Entry(storage, l, hashText(x)), l)
    /\ Entry(storage', l, hashText(x)) = JString(MarkerFor(l) \o x)

\* C19 as stated: once a value that does not start with "[L] " is persisted
\* under (L, hashText(x)), no step of any call replaces it with "[L] x".
C19_NoRegression_AsStated ==
    [][\A l \in Languages, x \in Texts : ~Regresses(l, x)]_vars

\* the step resumes call c, which was started when the entry was not a
\* non-empty trusted value, or whose cache read failed to return the entry
ResumesStale(c) ==
    /\ calls[c].pc = "pending" /\ calls'[c].pc = "resolved"
    /\ calls'[c].outcome # "resolve"
    /\ \/ ~(IsTrusted(calls[c].stored, calls[c].lang) /\ calls[c].stored.s # <<>>)
       \/ calls[c].cached # calls[c].stored

\* C19 amended: a trusted value persisted under (L, hashText(x)) is replaced
\* by "[L] x" only by the set of a t(x) call under L whose provider failed or
\* was missing and which was already past its cache read when the value was
\* persisted, or found it empty, or whose cache read failed; a call that
\* reads a non-empty trusted value never replaces it.
C19_NoRegression ==
    [][\A l \in Languages, x \in Texts :
        Regresses(l, x) =>
            \E c \in CallIds :
                /\ calls[c].lang = l /\ calls[c].text = x
                /\ ResumesStale(c)]_vars

\* call c missed the cache and was suspended; call d, started meanwhile,
\* persisted "X" under (es, hashText("A")); then the provider of c failed and
\* c replaced "X" by "[es] A"
C19_Witness ==
    \E c, d \in CallIds :
        /\ c \in calls[d].overlap
        /\ calls[c].lang = es /\ calls[d].lang = es
        /\ calls[c].text = <<65>> /\ calls[d].text = <<65>>
        /\ calls[c].stored = JUndefined
        /\ calls[d].wrote = "ok"
        /\ calls[d].after = JString(<<88>>)
        /\ calls[d].doneAt = 1 /\ calls[c].doneAt = 2
        /\ calls[c].outcome = "fail"
        /\ calls[c].wrote = "ok"
        /\ calls[c].after = JString(<<91, 101, 115, 93, 32, 65>>)
====
